---- MODULE Spec2Model ----
(***************************************************************************)
(* A model of the HTML documenter: the stack-discipline markup builder     *)
(* (src/html/HtmlEmitter.ts) and the page generator that drives it         *)
(* (src/documenters/HtmlDocumenter.ts).                                    *)
(*                                                                         *)
(* Markup nodes are records.  A block node has a field content (a sequence *)
(* of nodes), a text node has a field text, and a node that was opened on  *)
(* an emitter is held by reference: the emitter keeps a heap of the nodes  *)
(* it was handed through openNode, and a content entry [ref |-> i] stands  *)
(* for the object heap[i], as the JavaScript array holds the object.       *)
(***************************************************************************)
EXTENDS Integers, Sequences, FiniteSets, TLC

VARIABLES
    emitter,    \* the HtmlEmitter under test (SpecEmitter)
    calls,      \* the calls made on it so far, oldest first
    thrown,     \* whether the last call threw
    result,     \* what the last root() or emit() call returned
    pending,    \* the openNode(child, fn) calls whose fn is running, outermost first
    apiModel,   \* the entity tree handed to the documenter (SpecDocumenter)
    pc,         \* "start", "running", "done" (generateFiles returned) or "failed" (it threw)
    stack,      \* the pages under construction, the caller below its callee
    written,    \* the FileSystem.writeFile calls of the run, oldest first
    visited,    \* the _writeApiItemPage calls of the run, oldest first
    warnings    \* the number of WARNING lines the run logged

vars == <<emitter, calls, thrown, result, pending, apiModel, pc, stack, written, visited, warnings>>

emitterVars == <<emitter, calls, thrown, result, pending>>
documenterVars == <<apiModel, pc, stack, written, visited, warnings>>

Last(s) == s[Len(s)]
Front(s) == SubSeq(s, 1, Len(s) - 1)

(***************************************************************************)
(* HtmlEmitter.ts: node constructors                                       *)
(***************************************************************************)

\* _tag with a node list as content
_tag(type, className, content) ==
    IF className # ""
    THEN [type |-> type, attributes |-> [class |-> className], content |-> content]
    ELSE [type |-> type, content |-> content]

\* _tag with a string as content
_tagText(type, className, text) ==
    IF className # ""
    THEN [type |-> type, attributes |-> [class |-> className], text |-> text]
    ELSE [type |-> type, text |-> text]

\* tag(type, content: HtmlNode[])
tag(type, content) == _tag(type, "", content)

\* tag(type, content: string)
tagText(type, text) == _tagText(type, "", text)

\* tag(type, className, content: HtmlNode[]): an array is always truthy
tagClass(type, className, content) == _tag(type, className, content)

\* tag(type, className, content: string): the empty string is falsy, and then
\* the class name is taken for the content
tagClassText(type, className, text) ==
    IF text # "" THEN _tagText(type, className, text)
                 ELSE _tagText(type, "", className)

\* table(headings): a table node that already holds its thead
table(headings) ==
    tag("table", << tag("thead", << tag("tr", [i \in 1..Len(headings) |-> tagText("th", headings[i])]) >>) >>)

\* A cell of tr() that is a string, not a node
Str(s) == [str |-> s]

\* tr(cells): a string cell becomes the text of its td, a node its only child
tr(cells) ==
    tag("tr", [i \in 1..Len(cells) |->
                  IF "str" \in DOMAIN cells[i] THEN tagText("td", cells[i].str)
                                               ELSE tag("td", << cells[i] >>)])

\* a(text, href, className)
a(text, href, className) ==
    IF className # ""
    THEN [type |-> "a", attributes |-> [class |-> className, href |-> href], text |-> text]
    ELSE [type |-> "a", attributes |-> [href |-> href], text |-> text]

(***************************************************************************)
(* HtmlEmitter.ts: the emitter                                             *)
(***************************************************************************)

\* new HtmlEmitter(rootTag)
NewEmitter(rootTag) ==
    [heap     |-> << [type |-> rootTag, content |-> <<>>] >>,
     _root    |-> <<1>>,
     _current |-> 1,
     _styles  |-> <<>>]

addStyle(em, style) == [em EXCEPT !._styles = Append(@, style)]

\* appendChild that pushes to the root instead of the current node
appendChildToRoot(em, child) ==
    [em EXCEPT !.heap[em._root[1]].content = Append(@, child)]

appendChild(em, child) ==
    [em EXCEPT !.heap[em._current].content = Append(@, child)]

\* openNode that pushes the child and leaves the insertion point where it was
openNodeSameCurrent(em, child) ==
    LET id == Len(em.heap) + 1 IN
    [em EXCEPT !.heap  = Append([@ EXCEPT ![em._current].content = Append(@, [ref |-> id])], child),
               !._root = Append(@, id)]

\* openNode(child) up to the test of fn: the whole call when there is no
\* callback, and the call up to where it invokes fn when there is one
openNode(em, child) ==
    LET id == Len(em.heap) + 1 IN
    [em EXCEPT !.heap     = Append([@ EXCEPT ![em._current].content = Append(@, [ref |-> id])], child),
               !._current = id,
               !._root    = Append(@, id)]

\* closeNode without the test of the stack length
closeNodeNoUnderflowTest(em, name) ==
    IF em.heap[em._current].type # name
    THEN [emitter |-> em, thrown |-> TRUE]
    ELSE [emitter |-> [em EXCEPT !._root = Front(@),
                                 !._current = IF Len(em._root) > 1 THEN em._root[Len(em._root) - 1] ELSE em._current],
          thrown |-> FALSE]

\* closeNode(name): the emitter after the call, and whether the call threw
closeNode(em, name) ==
    IF em.heap[em._current].type # name
    THEN [emitter |-> em, thrown |-> TRUE]
    ELSE IF Len(em._root) = 1
    THEN [emitter |-> em, thrown |-> TRUE]
    ELSE [emitter |-> [em EXCEPT !._root = Front(@),
                                 !._current = em._root[Len(em._root) - 1]],
          thrown |-> FALSE]

\* The object graph below heap[id] as a value: every reference resolved.
RECURSIVE Resolve(_, _)
Resolve(em, id) ==
    LET n == em.heap[id] IN
    [n EXCEPT !.content =
        [i \in 1..Len(n.content) |->
            IF "ref" \in DOMAIN n.content[i]
            THEN Resolve(em, n.content[i].ref)
            ELSE n.content[i]]]

\* root(): this._root[0]
root(em) == Resolve(em, em._root[1])

\* HtmlCreator(...).renderHTML(): the document as a flat sequence of tokens
RECURSIVE renderHTML(_)
renderHTML(nodes) ==
    IF nodes = <<>> THEN <<>>
    ELSE LET n == Head(nodes) IN
         (IF "content" \in DOMAIN n
          THEN << "<" \o n.type \o ">" >> \o renderHTML(n.content) \o << "</" \o n.type \o ">" >>
          ELSE << "<" \o n.type \o "/>" >>)
         \o renderHTML(Tail(nodes))

\* emit(): the head with one link per style, then the root
emit(em) ==
    renderHTML(<< tag("head", [i \in 1..Len(em._styles) |->
                                   [type |-> "link",
                                    attributes |-> [rel |-> "stylesheet", type |-> "text/css", href |-> em._styles[i]]]]),
                  root(em) >>)

(***************************************************************************)
(* The emitter driven by an arbitrary caller                               *)
(***************************************************************************)

\* The longest call sequence explored.
MaxCalls == 5

\* The tag names the caller opens, appends and closes with.
OpenTypes == {"div", "b"}
LeafTypes == {"span"}
CloseNames == {"body", "div", "b"}

Call(op, name) == [op |-> op, name |-> name]

TopType(em) == em.heap[Last(em._root)].type

InitEmitter ==
    /\ emitter = NewEmitter("body")
    /\ calls = <<>>
    /\ thrown = FALSE
    /\ result = <<>>
    /\ pending = <<>>
    /\ apiModel = <<>> /\ pc = "idle" /\ stack = <<>>
    /\ written = <<>> /\ visited = <<>> /\ warnings = 0

AppendChild ==
    \E t \in LeafTypes :
        /\ Len(calls) < MaxCalls
        /\ emitter' = appendChild(emitter, tagText(t, "text"))
        /\ calls' = Append(calls, Call("appendChild", t))
        /\ thrown' = FALSE
        /\ result' = <<>>
        /\ UNCHANGED <<pending, documenterVars>>

OpenNode ==
    \E t \in OpenTypes :
        /\ Len(calls) < MaxCalls
        /\ emitter' = openNode(emitter, tag(t, <<>>))
        /\ calls' = Append(calls, Call("openNode", t))
        /\ thrown' = FALSE
        /\ result' = <<>>
        /\ UNCHANGED <<pending, documenterVars>>

CloseNode ==
    \E k \in CloseNames :
        /\ Len(calls) < MaxCalls
        /\ emitter' = closeNode(emitter, k).emitter
        /\ thrown' = closeNode(emitter, k).thrown
        /\ calls' = Append(calls, Call("closeNode", k))
        /\ result' = <<>>
        /\ UNCHANGED <<pending, documenterVars>>

\* root() never throws
Root ==
    /\ Len(calls) < MaxCalls
    /\ result' = << root(emitter) >>
    /\ calls' = Append(calls, Call("root", ""))
    /\ thrown' = FALSE
    /\ UNCHANGED <<emitter, pending, documenterVars>>

\* emit() never throws
Emit ==
    /\ Len(calls) < MaxCalls
    /\ result' = emit(emitter)
    /\ calls' = Append(calls, Call("emit", ""))
    /\ thrown' = FALSE
    /\ UNCHANGED <<emitter, pending, documenterVars>>

NextEmitter == AppendChild \/ OpenNode \/ CloseNode \/ Root \/ Emit

SpecEmitter == InitEmitter /\ [][NextEmitter]_vars

(***************************************************************************)
(* The emitter driven by a caller that also passes callbacks to openNode.  *)
(* A callback is the caller's code: it makes whatever calls it likes on    *)
(* the emitter, returns or throws, and catches an exception of a call it   *)
(* made or lets it pass.                                                   *)
(***************************************************************************)

\* What openNode(child, fn) holds while fn runs: the child, and the stack
\* and the insertion point from before the call
Frame(em, type) ==
    [type |-> type, child |-> Len(em.heap) + 1, _root |-> em._root, _current |-> em._current]

\* The record of an openNode(child, fn) call that has come to its end
Return(frame) ==
    [op |-> "return", name |-> frame.type, child |-> frame.child,
     _root |-> frame._root, _current |-> frame._current]

\* openNode(child, fn) from its entry to the call of fn
OpenNodeFn ==
    \E t \in OpenTypes :
        /\ Len(calls) < MaxCalls
        /\ emitter' = openNode(emitter, tag(t, <<>>))
        /\ pending' = Append(pending, Frame(emitter, t))
        /\ calls' = Append(calls, Call("openNodeFn", t))
        /\ thrown' = FALSE
        /\ UNCHANGED <<result, documenterVars>>

\* The innermost fn returns, and openNode goes on to closeNode(child.type)
FnReturns ==
    /\ pending # <<>>
    /\ emitter' = closeNode(emitter, Last(pending).type).emitter
    /\ thrown' = closeNode(emitter, Last(pending).type).thrown
    /\ calls' = Append(calls, Return(Last(pending)))
    /\ pending' = Front(pending)
    /\ UNCHANGED <<result, documenterVars>>

\* The innermost fn lets the exception of the call it made pass, and so
\* does openNode, which has no handler: its closeNode is not reached
FnThrows ==
    /\ pending # <<>>
    /\ thrown
    /\ pending' = Front(pending)
    /\ UNCHANGED <<emitter, calls, thrown, result, documenterVars>>

NextCallback == AppendChild \/ OpenNode \/ CloseNode \/ OpenNodeFn \/ FnReturns \/ FnThrows

SpecCallback == InitEmitter /\ [][NextCallback]_vars

(***************************************************************************)
(* The entity model and the doc comments, as the documenter reads them     *)
(* (@microsoft/api-extractor-model, @microsoft/tsdoc).  An entity is named *)
(* by its path from the model: the member indices on the way down, so the  *)
(* model is <<>>, its first package <<1>>, that package's entry point      *)
(* <<1, 1>>.  An optional value is a sequence of length 0 or 1.            *)
(***************************************************************************)

ApiItem(kind, displayName) ==
    [kind            |-> kind,
     displayName     |-> displayName,
     members         |-> <<>>,
     tsdocComment    |-> <<>>,      \* optional DocComment
     overloadIndex   |-> 0,         \* one-based; read on callables only
     extendsTokens   |-> <<>>,      \* the tokens of extendsType.excerpt
     releaseTag      |-> "None",
     isStatic        |-> FALSE,
     isEventProperty |-> FALSE,
     parameters      |-> <<>>,      \* [name, parameterTypeExcerpt, tsdocParamBlock]
     returnTypeExcerpt |-> "",
     excerptText     |-> kind \o " " \o displayName]

DocComment(summary) ==
    [summarySection |-> summary,
     remarksBlock   |-> <<>>,       \* optional block content
     returnsBlock   |-> <<>>,       \* optional block content
     customBlocks   |-> <<>>]       \* [blockTag, content]

DocPlainText(text) == [kind |-> "PlainText", text |-> text]
DocHtmlStartTag(name) == [kind |-> "HtmlStartTag", name |-> name]
DocHtmlEndTag(name) == [kind |-> "HtmlEndTag", name |-> name]
DocParagraph(nodes) == [kind |-> "Paragraph", nodes |-> nodes]
DocSoftBreak == [kind |-> "SoftBreak"]
DocCustomBlock(blockTag, content) == [blockTag |-> blockTag, content |-> content]
DocLinkTag(memberReferences, linkText) ==
    [kind |-> "LinkTag", urlDestination |-> "", linkText |-> linkText,
     codeDestination |-> << [memberReferences |-> memberReferences] >>]

RECURSIVE ItemAt(_, _)
ItemAt(node, path) ==
    IF path = <<>> THEN node ELSE ItemAt(node.members[Head(path)], Tail(path))

Item(path) == ItemAt(apiModel, path)

\* ApiItem.getHierarchy(): the entities from the model down to the entity
getHierarchy(path) == [i \in 1..(Len(path) + 1) |-> SubSeq(path, 1, i - 1)]

\* ApiItem.getMergedSiblings(): the members of the parent that carry the
\* entity's name, the entity among them; none for an entity without a parent
getMergedSiblings(path) ==
    IF path = <<>> THEN <<>>
    ELSE LET parent == Front(path)
             all == [i \in 1..Len(Item(parent).members) |-> Append(parent, i)]
         IN  SelectSeq(all, LAMBDA q : Item(q).displayName = Item(path).displayName)

CallableKinds == {"Constructor", "ConstructSignature", "Method", "MethodSignature", "Function"}

\* ApiParameterListMixin.isBaseClassOf
ApiParameterListMixin_isBaseClassOf(item) == item.kind \in CallableKinds \cup {"CallSignature", "IndexSignature"}

\* ApiReturnTypeMixin.isBaseClassOf
ApiReturnTypeMixin_isBaseClassOf(item) == item.kind \in {"Method", "MethodSignature", "Function", "CallSignature"}

\* instanceof ApiDocumentedItem
IsApiDocumentedItem(item) == item.kind \notin {"Model", "EntryPoint"}

\* instanceof ApiDeclaredItem
isApiDeclaredItem(item) == item.kind \notin {"Model", "Package", "EntryPoint"}

\* PackageName.getUnscopedName: the name without its @scope/
getUnscopedName(name) ==
    CASE name = "@scope/pkg" -> "pkg"
      [] OTHER -> name

\* Utilities.getSafeFilenameForName: the names of the model are file-safe
\* already, but for the scoped package name
getSafeFilenameForName(name) ==
    CASE name = "@scope/pkg" -> "_scope_pkg"
      [] OTHER -> name

\* Utilities.getConciseSignature
getConciseSignature(item) ==
    IF ApiParameterListMixin_isBaseClassOf(item) THEN item.displayName \o "()" ELSE item.displayName

\* ApiItem.getScopedNameWithinPackage(): the names below the package, dotted
RECURSIVE ScopedNameLoop(_, _)
ScopedNameLoop(path, i) ==
    IF i > Len(path) THEN ""
    ELSE LET item == Item(SubSeq(path, 1, i))
             rest == ScopedNameLoop(path, i + 1)
         IN  IF item.kind \in {"Model", "Package", "EntryPoint"} THEN rest
             ELSE IF rest = "" THEN item.displayName
             ELSE item.displayName \o "." \o rest

getScopedNameWithinPackage(path) == ScopedNameLoop(path, 1)

(***************************************************************************)
(* HtmlDocumenter.ts: filenames                                            *)
(***************************************************************************)

\* The name of one hierarchy entry, with the overload index itself appended
qualifiedNameIndexAsSuffix(hierarchyItem) ==
    LET name == getSafeFilenameForName(hierarchyItem.displayName) IN
    IF ApiParameterListMixin_isBaseClassOf(hierarchyItem) /\ hierarchyItem.overloadIndex > 1
    THEN name \o "_" \o ToString(hierarchyItem.overloadIndex)
    ELSE name

\* The name of one hierarchy entry, with a suffix on the first overload too
qualifiedNameFromFirst(hierarchyItem) ==
    LET name == getSafeFilenameForName(hierarchyItem.displayName) IN
    IF ApiParameterListMixin_isBaseClassOf(hierarchyItem) /\ hierarchyItem.overloadIndex > 0
    THEN name \o "_" \o ToString(hierarchyItem.overloadIndex - 1)
    ELSE name

\* The name of one hierarchy entry: the safe name, and for the second and
\* later overloads of a callable the overload index less one
qualifiedName(hierarchyItem) ==
    LET name == getSafeFilenameForName(hierarchyItem.displayName) IN
    IF ApiParameterListMixin_isBaseClassOf(hierarchyItem) /\ hierarchyItem.overloadIndex > 1
    THEN name \o "_" \o ToString(hierarchyItem.overloadIndex - 1)
    ELSE name

\* The loop over getHierarchy() of _getFilenameForApiItem
RECURSIVE baseNameLoop(_, _, _)
baseNameLoop(hierarchy, i, baseName) ==
    IF i > Len(hierarchy) THEN baseName
    ELSE LET hierarchyItem == Item(hierarchy[i]) IN
         baseNameLoop(hierarchy, i + 1,
             CASE hierarchyItem.kind \in {"Model", "EntryPoint"} -> baseName
               [] hierarchyItem.kind = "Package" ->
                      getSafeFilenameForName(getUnscopedName(hierarchyItem.displayName))
               [] OTHER -> baseName \o "." \o qualifiedName(hierarchyItem))

_getFilenameForApiItem(path) ==
    IF Item(path).kind = "Model" THEN "index.html"
    ELSE baseNameLoop(getHierarchy(path), 1, "") \o ".html"

_getLinkFilenameForApiItem(path) == "./" \o _getFilenameForApiItem(path)

(***************************************************************************)
(* HtmlDocumenter.ts: doc nodes to markup                                  *)
(***************************************************************************)

\* The answer of a lookup that went wrong: no entity, and always a message
Unresolved(errorMessage) == [resolvedApiItem |-> <<>>, errorMessage |-> errorMessage]

\* One step of the lookup: found are the members of the current entity that
\* carry the next name of the reference
RECURSIVE ResolveLoop(_, _, _)
ResolveStep(found, memberReferences, i) ==
    IF Len(found) = 1 THEN ResolveLoop(found[1], memberReferences, i + 1)
    ELSE IF Len(found) = 0 THEN Unresolved("The member reference was not found")
    ELSE Unresolved("The member reference was ambiguous")

\* The walk of the lookup down the names of the reference
ResolveLoop(current, memberReferences, i) ==
    IF i > Len(memberReferences) THEN [resolvedApiItem |-> << current >>, errorMessage |-> ""]
    ELSE ResolveStep(SelectSeq([k \in 1..Len(Item(current).members) |-> Append(current, k)],
                               LAMBDA q : Item(q).displayName = memberReferences[i]),
                     memberReferences, i)

\* ApiModel.resolveDeclarationReference: a reference without a package name
\* is looked up from the entry point of the package of the context entity,
\* member name by member name.  The answer holds the entity, or else an
\* error message.
resolveDeclarationReference(codeDestination, contextApiItem) ==
    IF Len(contextApiItem) = 0 THEN Unresolved("The reference does not include a package name")
    ELSE ResolveLoop(<< contextApiItem[1], 1 >>, codeDestination.memberReferences, 1)

RECURSIVE _createDocNodes(_, _)

\* A Paragraph or a Block: its nodes, translated by a call of their own, in
\* a p or a div
DocNodeBlock(r, node, inner) ==
    IF inner.thrown
    THEN [r EXCEPT !.thrown = TRUE, !.warnings = @ + inner.warnings]
    ELSE [r EXCEPT !.emitter = appendChild(@, tag(IF node.kind = "Paragraph" THEN "p" ELSE "div", inner.content)),
                   !.warnings = @ + inner.warnings]

\* The case of a LinkTag to a declaration that puts the text of the link
\* where the anchor would be when the lookup fails
DocNodeCodeLinkPlaceholder(r, node, lookup) ==
    IF lookup.resolvedApiItem # <<>>
    THEN [r EXCEPT !.emitter = appendChild(@,
             a(IF node.linkText # "" THEN node.linkText
                                     ELSE getScopedNameWithinPackage(lookup.resolvedApiItem[1]),
               _getLinkFilenameForApiItem(lookup.resolvedApiItem[1]), ""))]
    ELSE [r EXCEPT !.emitter = appendChild(@, tagText("span", node.linkText)), !.warnings = @ + 1]

\* A LinkTag to a declaration: an anchor when it resolves, a warning when
\* the lookup carries an error message
DocNodeCodeLink(r, node, lookup) ==
    IF lookup.resolvedApiItem # <<>>
    THEN [r EXCEPT !.emitter = appendChild(@,
             a(IF node.linkText # "" THEN node.linkText
                                     ELSE getScopedNameWithinPackage(lookup.resolvedApiItem[1]),
               _getLinkFilenameForApiItem(lookup.resolvedApiItem[1]), ""))]
    ELSE IF lookup.errorMessage # ""
    THEN [r EXCEPT !.warnings = @ + 1]
    ELSE r

\* An HtmlEndTag: closeNode(node.name)
DocNodeEndTag(r, closed) == [r EXCEPT !.emitter = closed.emitter, !.thrown = closed.thrown]

\* One pass of the forEach of _createDocNodes over one node; r holds the
\* local emitter, whether the pass threw, and the lines logged
DocNodeCase(r, node, contextApiItem) ==
    CASE node.kind \in {"Paragraph", "Block"} ->
            DocNodeBlock(r, node, _createDocNodes(node.nodes, contextApiItem))
      [] node.kind = "InlineTag" ->
            [r EXCEPT !.emitter = appendChild(@, tagText("span", node.tagName))]
      [] node.kind = "SoftBreak" -> r
      [] node.kind = "CodeSpan" ->
            [r EXCEPT !.emitter = appendChild(@, tagText("code", node.code))]
      [] node.kind = "FencedCode" ->
            [r EXCEPT !.emitter = appendChild(@, tagText("pre", node.code))]
      [] node.kind = "EscapedText" ->
            [r EXCEPT !.emitter = appendChild(@, tagText("span", node.decodedText))]
      [] node.kind = "LinkTag" ->
            IF node.urlDestination # ""
            THEN [r EXCEPT !.emitter = appendChild(@,
                     a(IF node.linkText # "" THEN node.linkText ELSE node.urlDestination, node.urlDestination, ""))]
            ELSE IF node.codeDestination # <<>>
            THEN DocNodeCodeLink(r, node, resolveDeclarationReference(node.codeDestination[1], contextApiItem))
            ELSE r
      [] node.kind = "PlainText" ->
            [r EXCEPT !.emitter = appendChild(@, tagText("span", node.text))]
      [] node.kind = "HtmlStartTag" ->
            [r EXCEPT !.emitter = openNode(@, tag(node.name, <<>>))]
      [] node.kind = "HtmlEndTag" -> DocNodeEndTag(r, closeNode(r.emitter, node.name))
      [] OTHER -> [r EXCEPT !.thrown = TRUE]

RECURSIVE DocNodesForEach(_, _, _, _)
DocNodesForEach(r, nodes, i, contextApiItem) ==
    IF i > Len(nodes) \/ r.thrown THEN r
    ELSE DocNodesForEach(DocNodeCase(r, nodes[i], contextApiItem), nodes, i + 1, contextApiItem)

\* The local emitter _createDocNodes starts with
NewDocNodes == [emitter |-> NewEmitter("body"), thrown |-> FALSE, warnings |-> 0]

\* What a call that caught the throw of its loop would return
DocNodesCaught(r) ==
    [thrown |-> FALSE, content |-> root(r.emitter).content, warnings |-> r.warnings]

\* What the call returns: output.root().content, unless the loop threw
DocNodesReturned(r) ==
    [thrown |-> r.thrown, content |-> IF r.thrown THEN <<>> ELSE root(r.emitter).content, warnings |-> r.warnings]

\* _createDocNodes that catches what the loop throws and returns the nodes
\* built so far
_createDocNodesCatching(nodes, contextApiItem) ==
    DocNodesCaught(DocNodesForEach(NewDocNodes, nodes, 1, contextApiItem))

\* _createDocNodes(nodes, contextApiItem): whether it threw, the nodes it
\* returned (root().content) and the number of lines it logged
_createDocNodes(nodes, contextApiItem) ==
    DocNodesReturned(DocNodesForEach(NewDocNodes, nodes, 1, contextApiItem))

(***************************************************************************)
(* HtmlDocumenter.ts: table cells                                          *)
(***************************************************************************)

_createTitleCell(path) ==
    a(getConciseSignature(Item(path)), _getLinkFilenameForApiItem(path), "ref")

\* The cell around the nodes of the summary
DescriptionCell(d) ==
    [thrown |-> d.thrown, cell |-> tagClass("div", "description", d.content), warnings |-> d.warnings]

\* _createDescriptionCell: whether it threw, the cell, the lines logged
_createDescriptionCell(path, contextApiItem) ==
    IF IsApiDocumentedItem(Item(path)) /\ Item(path).tsdocComment # <<>>
    THEN DescriptionCell(_createDocNodes(Item(path).tsdocComment[1].summarySection, contextApiItem))
    ELSE [thrown |-> FALSE, cell |-> tagClass("div", "description", <<>>), warnings |-> 0]

\* tag('div', 'modifiers') has no third argument: the class name is the content
_createModifiersCell(path) ==
    IF Item(path).isStatic THEN tagClassText("code", "modifiers", "static")
                           ELSE tagText("div", "modifiers")

_createPropertyTypeCell(path) ==
    IF Item(path).kind \in {"Property", "PropertySignature"}
    THEN tagClassText("code", "type", Item(path).excerptText)
    ELSE tagText("code", "type")

(***************************************************************************)
(* HtmlDocumenter.ts: sections of a page.  A frame f is what a page under  *)
(* construction holds: the run so far (st) and the page's emitter (output).*)
(* A run that has thrown stays thrown: every step passes it on untouched.  *)
(***************************************************************************)

Throw(f) == [f EXCEPT !.st.failed = TRUE]

Logged(f, n) == [f EXCEPT !.st.warnings = @ + n]

push(tableNode, row) == [tableNode EXCEPT !.content = Append(@, row)]

\* if (t.content.length > 2) { heading; table }
appendTableWhenTwoRows(output, tableNode, heading) ==
    IF Len(tableNode.content) > 2
    THEN appendChild(appendChild(output, tagClassText("h3", "section-heading", heading)), tableNode)
    ELSE output

\* if (t.content.length > 1) { appendChild(h3 heading); appendChild(t) }
appendTable(output, tableNode, heading) ==
    IF Len(tableNode.content) > 1
    THEN appendChild(appendChild(output, tagClassText("h3", "section-heading", heading)), tableNode)
    ELSE output

_writeBreadcrumb(output, path) ==
    LET hierarchy == getHierarchy(path)
        Loop[i \in 1..(Len(hierarchy) + 1)] ==
            IF i = 1 THEN appendChild(output, a("Home", _getLinkFilenameForApiItem(<<>>), "breadcrumb"))
            ELSE LET hierarchyItem == Item(hierarchy[i - 1]) IN
                 IF hierarchyItem.kind \in {"Model", "EntryPoint"} THEN Loop[i - 1]
                 ELSE appendChild(appendChild(Loop[i - 1], tagClassText("span", "breadcrumb", " / ")),
                                  a(hierarchyItem.displayName, _getLinkFilenameForApiItem(hierarchy[i - 1]), "breadcrumb"))
    IN  Loop[Len(hierarchy) + 1]

\* The switch on apiItems[0].kind that writes the h1
KindLabel(kind) ==
    CASE kind = "Class" -> " class"
      [] kind = "Enum" -> " enum"
      [] kind = "Interface" -> " interface"
      [] kind \in {"Constructor", "ConstructSignature"} -> ""
      [] kind \in {"Method", "MethodSignature"} -> " method"
      [] kind = "Function" -> " function"
      [] kind = "Model" -> " API Reference"
      [] kind = "Namespace" -> " namespace"
      [] kind \in {"Property", "PropertySignature"} -> " property"
      [] kind = "TypeAlias" -> " type"
      [] kind = "Variable" -> " variable"

PageKinds ==
    {"Class", "Enum", "Interface", "Constructor", "ConstructSignature", "Method", "MethodSignature",
     "Function", "Model", "Namespace", "Package", "Property", "PropertySignature", "TypeAlias", "Variable"}

WriteHeading(f, path) ==
    LET kind == Item(path).kind IN
    IF f.st.failed THEN f
    ELSE IF kind \notin PageKinds THEN Throw(f)
    ELSE IF kind = "Package"
    THEN [f EXCEPT !.output = appendChild(@, tagClassText("h1", "page-header",
                                  getUnscopedName(Item(path).displayName) \o " package"))]
    ELSE [f EXCEPT !.output = appendChild(@, tagClassText("h1", "page-header",
                                  getScopedNameWithinPackage(path) \o KindLabel(kind)))]

\* _writeBetaWarning: its body is commented out
_writeBetaWarning(output) == output

WriteBetaWarning(f, apiItems) ==
    IF f.st.failed THEN f
    ELSE IF \E i \in 1..Len(apiItems) : Item(apiItems[i]).releaseTag = "Beta"
    THEN [f EXCEPT !.output = _writeBetaWarning(@)]
    ELSE f

\* The summary d of an entity appended to the page, or the throw of its
\* translation passed on
Summary(f, d) ==
    IF d.thrown THEN Throw(Logged(f, d.warnings))
    ELSE Logged([f EXCEPT !.output = appendChild(@, tagClass("div", "summary", d.content))], d.warnings)

\* The forEach that appends the summary of every documented entity
RECURSIVE WriteSummaries(_, _, _)
WriteSummaries(f, apiItems, i) ==
    IF i > Len(apiItems) \/ f.st.failed THEN f
    ELSE IF IsApiDocumentedItem(Item(apiItems[i])) /\ Item(apiItems[i]).tsdocComment # <<>>
    THEN WriteSummaries(
             Summary(f, _createDocNodes(Item(apiItems[i]).tsdocComment[1].summarySection, apiItems[1])),
             apiItems, i + 1)
    ELSE WriteSummaries(f, apiItems, i + 1)

WriteSignatures(f, apiItems) ==
    LET signatures == SelectSeq(apiItems, LAMBDA p : isApiDeclaredItem(Item(p)) /\ Item(p).excerptText # "")
        Loop[i \in 0..Len(signatures)] ==
            IF i = 0
            THEN IF Len(signatures) > 0
                 THEN appendChild(f.output, tagClassText("div", "signature-heading", "Signature"))
                 ELSE f.output
            ELSE appendChild(Loop[i - 1], tagClassText("pre", "signature", Item(signatures[i]).excerptText))
    IN  IF f.st.failed THEN f ELSE [f EXCEPT !.output = Loop[Len(signatures)]]

\* The heading and the nodes d of the remarks block
Remarks(f, d) ==
    IF d.thrown THEN Throw(Logged(f, d.warnings))
    ELSE Logged([f EXCEPT !.output = appendChild(appendChild(@, tagClassText("h3", "section-heading", "Remarks")),
                                                 tag("div", d.content))],
                d.warnings)

_writeRemarksSection(f, path, contextApiItem) ==
    IF f.st.failed THEN f
    ELSE IF /\ IsApiDocumentedItem(Item(path))
            /\ Item(path).tsdocComment # <<>>
            /\ Item(path).tsdocComment[1].remarksBlock # <<>>
    THEN Remarks(f, _createDocNodes(Item(path).tsdocComment[1].remarksBlock[1], contextApiItem))
    ELSE f

\* The first element of an array; undefined when the array is empty
First(content) == IF content = <<>> THEN [undefined |-> TRUE] ELSE content[1]

\* The row of one @throws block, whose nodes are d
ThrowsRow(acc, d) ==
    IF d.thrown THEN [acc EXCEPT !.f = Throw(Logged(@, d.warnings))]
    ELSE [acc EXCEPT !.f = Logged(@, d.warnings),
                     !.exceptionsTable = push(@, tr(<< tag("span", d.content) >>))]

\* The for loop of _writeThrowsSection; acc holds the frame and the table
RECURSIVE ThrowsLoop(_, _, _)
ThrowsLoop(acc, throwsBlocks, i) ==
    IF i > Len(throwsBlocks) \/ acc.f.st.failed THEN acc
    ELSE ThrowsLoop(ThrowsRow(acc, _createDocNodes(throwsBlocks[i].content, acc.f.contextApiItem)),
                    throwsBlocks, i + 1)

\* output.appendChild(exceptionsTable), whatever the table holds
ThrowsTable(acc) ==
    IF acc.f.st.failed THEN acc.f
    ELSE [acc.f EXCEPT !.output = appendChild(@, acc.exceptionsTable)]

\* The heading, then the loop over the @throws blocks
WriteThrows(f, customBlocks) ==
    ThrowsTable(ThrowsLoop(
        [f |-> [f EXCEPT !.output = appendChild(@, tagClassText("h3", "section-heading", "Throws"))],
         exceptionsTable |-> table(<< "Error" >>)],
        SelectSeq(customBlocks, LAMBDA x : x.blockTag = "@throws"), 1))

\* _writeThrowsSection that writes the section for an entity without a doc
\* comment too
_writeThrowsSectionAlways(f, path) ==
    IF f.st.failed THEN f
    ELSE WriteThrows(f, IF Item(path).tsdocComment # <<>> THEN Item(path).tsdocComment[1].customBlocks
                                                           ELSE <<>>)

_writeThrowsSection(f, path) ==
    IF f.st.failed THEN f
    ELSE IF IsApiDocumentedItem(Item(path)) /\ Item(path).tsdocComment # <<>>
    THEN WriteThrows(f, Item(path).tsdocComment[1].customBlocks)
    ELSE f

\* The row of a parameter that has a doc block, whose nodes are d
ParameterRow(acc, apiParameter, d) ==
    IF d.thrown THEN [acc EXCEPT !.f = Throw(Logged(@, d.warnings))]
    ELSE [acc EXCEPT !.f = Logged(@, d.warnings),
                     !.description = First(d.content),
                     !.parametersTable = push(@, tr(<< Str(apiParameter.name),
                                                        Str(apiParameter.parameterTypeExcerpt),
                                                        First(d.content) >>))]

\* The for loop of _writeParameterTables; description lives across iterations
RECURSIVE ParametersLoop(_, _, _)
ParametersLoop(acc, parameters, i) ==
    IF i > Len(parameters) \/ acc.f.st.failed THEN acc
    ELSE IF parameters[i].tsdocParamBlock # <<>>
    THEN ParametersLoop(
             ParameterRow(acc, parameters[i],
                          _createDocNodes(parameters[i].tsdocParamBlock[1], acc.f.contextApiItem)),
             parameters, i + 1)
    ELSE ParametersLoop(
             [acc EXCEPT !.parametersTable = push(@, tr(<< Str(parameters[i].name),
                                                            Str(parameters[i].parameterTypeExcerpt),
                                                            acc.description >>))],
             parameters, i + 1)

\* The parameters table, when it holds a row
ParametersTable(acc) ==
    IF acc.f.st.failed THEN acc.f
    ELSE [acc.f EXCEPT !.output = appendTable(@, acc.parametersTable, "Parameters")]

\* The returns table, whose description is the first of the nodes d
ReturnsTable(f, item, d) ==
    IF d.thrown THEN Throw(Logged(f, d.warnings))
    ELSE Logged([f EXCEPT !.output =
                    appendChild(appendChild(@, tagClassText("h3", "section-heading", "Returns")),
                                push(table(<< "Type", "Description" >>),
                                     tr(<< Str(item.returnTypeExcerpt), First(d.content) >>)))],
                d.warnings)

\* The second half of _writeParameterTables
WriteReturns(f, path) ==
    IF f.st.failed THEN f
    ELSE IF /\ ApiReturnTypeMixin_isBaseClassOf(Item(path))
            /\ IsApiDocumentedItem(Item(path))
            /\ Item(path).tsdocComment # <<>>
            /\ Item(path).tsdocComment[1].returnsBlock # <<>>
    THEN ReturnsTable(f, Item(path), _createDocNodes(Item(path).tsdocComment[1].returnsBlock[1], f.contextApiItem))
    ELSE f

_writeParameterTables(f, path) ==
    IF f.st.failed THEN f
    ELSE WriteReturns(
             ParametersTable(ParametersLoop(
                 [f |-> f, description |-> Str(""),
                  parametersTable |-> table(<< "Parameter", "Type", "Description" >>)],
                 Item(path).parameters, 1)),
             path)

\* The row of an enum member, whose description cell is d
EnumRow(acc, apiEnumMember, d) ==
    IF d.thrown THEN [acc EXCEPT !.f = Throw(Logged(@, d.warnings))]
    ELSE [acc EXCEPT !.f = Logged(@, d.warnings),
                     !.enumMembersTable = push(@, tr(<< Str(getConciseSignature(Item(apiEnumMember))),
                                                         Str(Item(apiEnumMember).excerptText),
                                                         d.cell >>))]

\* _writeEnumTables: the members of an enum get a row and no page
RECURSIVE EnumLoop(_, _, _)
EnumLoop(acc, path, i) ==
    IF i > Len(Item(path).members) \/ acc.f.st.failed THEN acc
    ELSE EnumLoop(EnumRow(acc, Append(path, i), _createDescriptionCell(Append(path, i), acc.f.contextApiItem)),
                  path, i + 1)

EnumTable(acc) ==
    IF acc.f.st.failed THEN acc.f
    ELSE [acc.f EXCEPT !.output = appendTable(@, acc.enumMembersTable, "Enumeration Members")]

_writeEnumTables(f, path) ==
    IF f.st.failed THEN f
    ELSE EnumTable(EnumLoop([f |-> f, enumMembersTable |-> table(<< "Member", "Value", "Description" >>)],
                            path, 1))

(***************************************************************************)
(* HtmlDocumenter.ts: pages.  Writing a container's tables writes the      *)
(* pages of its members on the way, so these definitions call each other.  *)
(***************************************************************************)

\* isError(item): some Reference token of the extends clause reads "Error"
isError(item) ==
    \E i \in 1..Len(item.extendsTokens) :
        item.extendsTokens[i].kind = "Reference" /\ item.extendsTokens[i].text = "Error"

\* One pass of the loop of _writeModelTable over a member whose description
\* cell is d: whether it threw, the lines it logged, the table the row is
\* pushed to ("" for none) and the row
ModelRow(apiMember, d) ==
    [thrown   |-> d.thrown,
     warnings |-> d.warnings,
     name     |-> IF Item(apiMember).kind = "Package" THEN "packagesTable" ELSE "",
     row      |-> tr(<< _createTitleCell(apiMember), d.cell >>)]

ModelTables == << << "packagesTable", << "Package", "Description" >>, "Packages" >> >>

\* The if statement that closes _writeModelTable
_writeModelTable(output, tables) ==
    IF Len(tables["packagesTable"].content) > 0
    THEN appendChild(appendChild(output, tagClassText("h3", "section-heading", "Packages")),
                     tables["packagesTable"])
    ELSE output

\* The table a member of a package or namespace goes to; "" for a member of
\* a kind the switch has no case for
ContainerTableOf(item) ==
    CASE item.kind = "Class" -> IF ~isError(item) THEN "classesTable" ELSE "exceptionsTable"
      [] item.kind = "Enum" -> "enumerationsTable"
      [] item.kind = "Interface" -> "interfacesTable"
      [] item.kind = "Namespace" -> "namespacesTable"
      [] item.kind = "Function" -> "functionsTable"
      [] item.kind = "TypeAlias" -> "typeAliasesTable"
      [] item.kind = "Variable" -> "variablesTable"
      [] OTHER -> ""

\* The tables of a package or namespace page in the order they are appended:
\* the table, its headings, the section heading
ContainerTables ==
    << << "classesTable", << "Class", "Description" >>, "Classes" >>,
       << "enumerationsTable", << "Enumeration", "Description" >>, "Enumerations" >>,
       << "functionsTable", << "Function", "Description" >>, "Functions" >>,
       << "interfacesTable", << "Interface", "Description" >>, "Interfaces" >>,
       << "namespacesTable", << "Namespace", "Description" >>, "Namespaces" >>,
       << "variablesTable", << "Variable", "Description" >>, "Variables" >>,
       << "typeAliasesTable", << "Type Alias", "Description" >>, "Types" >>,
       << "exceptionsTable", << "Exception", "Description" >>, "Exceptions" >> >>

\* One pass of the loop of _writePackageOrNamespaceTables: the row is built
\* before the switch on the kind of the member
ContainerRow(apiMember, d) ==
    [thrown   |-> d.thrown,
     warnings |-> d.warnings,
     name     |-> ContainerTableOf(Item(apiMember)),
     row      |-> tr(<< _createTitleCell(apiMember), d.cell >>)]

\* The if statements that close a tables function, in their order
RECURSIVE AppendTables(_, _, _, _)
AppendTables(output, tables, order, i) ==
    IF i > Len(order) THEN output
    ELSE AppendTables(appendTable(output, tables[order[i][1]], order[i][3]), tables, order, i + 1)

NewTables(order) ==
    [n \in {order[i][1] : i \in 1..Len(order)} |->
        LET i == CHOOSE j \in 1..Len(order) : order[j][1] = n IN table(order[i][2])]

_writePackageOrNamespaceTables(output, tables) == AppendTables(output, tables, ContainerTables, 1)

ClassTables ==
    << << "eventsTable", << "Property", "Modifiers", "Type", "Description" >>, "Events" >>,
       << "constructorsTable", << "Constructor", "Modifiers", "Description" >>, "Constructors" >>,
       << "propertiesTable", << "Property", "Modifiers", "Type", "Description" >>, "Properties" >>,
       << "methodsTable", << "Method", "Modifiers", "Description" >>, "Methods" >> >>

\* The table a member of a class goes to; "" for a member of a kind the
\* switch has no case for
ClassTableOf(item) ==
    CASE item.kind = "Constructor" -> "constructorsTable"
      [] item.kind = "Method" -> "methodsTable"
      [] item.kind = "Property" -> IF item.isEventProperty THEN "eventsTable" ELSE "propertiesTable"
      [] OTHER -> ""

\* One pass of the loop of _writeClassTables: the row is built inside the
\* case of the kind of the member
ClassRow(apiMember, d) ==
    [thrown   |-> ClassTableOf(Item(apiMember)) # "" /\ d.thrown,
     warnings |-> IF ClassTableOf(Item(apiMember)) # "" THEN d.warnings ELSE 0,
     name     |-> ClassTableOf(Item(apiMember)),
     row      |-> IF Item(apiMember).kind = "Property"
                  THEN tr(<< _createTitleCell(apiMember), _createModifiersCell(apiMember),
                             _createPropertyTypeCell(apiMember), d.cell >>)
                  ELSE tr(<< _createTitleCell(apiMember), _createModifiersCell(apiMember), d.cell >>)]

_writeClassTables(output, tables) == AppendTables(output, tables, ClassTables, 1)

InterfaceTables ==
    << << "eventsTable", << "Property", "Type", "Description" >>, "Events" >>,
       << "propertiesTable", << "Property", "Type", "Description" >>, "Properties" >>,
       << "methodsTable", << "Method", "Description" >>, "Methods" >> >>

\* The table a member of an interface goes to
InterfaceTableOf(item) ==
    CASE item.kind \in {"ConstructSignature", "MethodSignature"} -> "methodsTable"
      [] item.kind = "PropertySignature" -> IF item.isEventProperty THEN "eventsTable" ELSE "propertiesTable"
      [] OTHER -> ""

\* One pass of the loop of _writeInterfaceTables
InterfaceRow(apiMember, d) ==
    [thrown   |-> InterfaceTableOf(Item(apiMember)) # "" /\ d.thrown,
     warnings |-> IF InterfaceTableOf(Item(apiMember)) # "" THEN d.warnings ELSE 0,
     name     |-> InterfaceTableOf(Item(apiMember)),
     row      |-> IF Item(apiMember).kind = "PropertySignature"
                  THEN tr(<< _createTitleCell(apiMember), _createPropertyTypeCell(apiMember), d.cell >>)
                  ELSE tr(<< _createTitleCell(apiMember), d.cell >>)]

_writeInterfaceTables(output, tables) == AppendTables(output, tables, InterfaceTables, 1)

\* The kinds whose case of the body switch loops over members and writes
\* the page of each member it puts in a table
TableKinds == {"Class", "Interface", "Namespace", "Package", "Model"}

\* The members a tables function loops over
apiMembersOf(path) ==
    LET container == IF Item(path).kind = "Package" THEN Append(path, 1) ELSE path
    IN  [i \in 1..Len(Item(container).members) |-> Append(container, i)]

\* The tables a tables function starts with
TablesOf(kind) ==
    CASE kind = "Class" -> NewTables(ClassTables)
      [] kind = "Interface" -> NewTables(InterfaceTables)
      [] kind \in {"Namespace", "Package"} -> NewTables(ContainerTables)
      [] kind = "Model" -> NewTables(ModelTables)
      [] OTHER -> <<>>

\* The row of a member whose description cell is d, by the kind of the page
RowOf(kind, apiMember, d) ==
    CASE kind = "Class" -> ClassRow(apiMember, d)
      [] kind = "Interface" -> InterfaceRow(apiMember, d)
      [] kind \in {"Namespace", "Package"} -> ContainerRow(apiMember, d)
      [] kind = "Model" -> ModelRow(apiMember, d)

AppendTablesOf(kind, output, tables) ==
    CASE kind = "Class" -> _writeClassTables(output, tables)
      [] kind = "Interface" -> _writeInterfaceTables(output, tables)
      [] kind \in {"Namespace", "Package"} -> _writePackageOrNamespaceTables(output, tables)
      [] kind = "Model" -> _writeModelTable(output, tables)

\* The cases of the body switch that call no tables function
WriteBody(f, path) ==
    LET kind == Item(path).kind IN
    CASE kind = "Enum" -> _writeEnumTables(f, path)
      [] kind \in CallableKinds -> _writeThrowsSection(_writeParameterTables(f, path), path)
      [] kind \in {"Property", "PropertySignature", "TypeAlias", "Variable"} -> f
      [] OTHER -> Throw(f)

RECURSIVE WriteRemarks(_, _, _)
WriteRemarks(f, apiItems, i) ==
    IF i > Len(apiItems) THEN f
    ELSE WriteRemarks(_writeRemarksSection(f, apiItems[i], f.contextApiItem), apiItems, i + 1)

PageHeader ==
    tag("header", << tagClass("div", "header-top", << a("", "https://developers.symphony.com/", "header-logo") >>),
                     tagClass("div", "header-bottom", <<>>) >>)

\* FileSystem.writeFile(filename, pageContent); page is the tree that was emitted
writeFile(filename, apiItems, output) ==
    [filename    |-> filename,
     apiItems    |-> apiItems,
     pageContent |-> emit(output),
     page        |-> root(output)]

\* _writeApiItemPageWithSiblings from its first statement to the remarks
\* sections: the frame the body switch starts from
_writeApiItemPageWithSiblings(st, apiItems) ==
    LET output == openNode(appendChild(addStyle(NewEmitter("body"), "styles.css"), PageHeader),
                           tagClass("div", "main", <<>>))
        f0 == [st |-> st, output |-> _writeBreadcrumb(output, apiItems[1]), contextApiItem |-> apiItems[1]]
        f1 == WriteSignatures(WriteSummaries(WriteBetaWarning(WriteHeading(f0, apiItems[1]), apiItems), apiItems, 1), apiItems)
    IN  WriteRemarks(f1, apiItems, 1)

\* _writeApiItemPage that writes the interface of a merged pair alone
_writeApiItemPageInterfaceAlone(apiItem) ==
    LET siblings == getMergedSiblings(apiItem)
        interfaces == SelectSeq(siblings, LAMBDA q : Item(q).kind = "Interface")
        namespaces == SelectSeq(siblings, LAMBDA q : Item(q).kind = "Namespace")
    IN  IF Len(interfaces) = 1 /\ Len(namespaces) = 1 /\ Len(siblings) = 2
        THEN IF Item(apiItem).kind = "Interface" THEN << interfaces >> ELSE <<>>
        ELSE << << apiItem >> >>

\* _writeApiItemPage that writes the merged page at the namespace too
_writeApiItemPageAtBoth(apiItem) ==
    LET siblings == getMergedSiblings(apiItem)
        interfaces == SelectSeq(siblings, LAMBDA q : Item(q).kind = "Interface")
        namespaces == SelectSeq(siblings, LAMBDA q : Item(q).kind = "Namespace")
    IN  IF Len(interfaces) = 1 /\ Len(namespaces) = 1 /\ Len(siblings) = 2
        THEN << interfaces \o namespaces >>
        ELSE << << apiItem >> >>

\* _writeApiItemPage(apiItem): the calls of _writeApiItemPageWithSiblings it
\* makes, each by its argument
_writeApiItemPage(apiItem) ==
    LET siblings == getMergedSiblings(apiItem)
        interfaces == SelectSeq(siblings, LAMBDA q : Item(q).kind = "Interface")
        namespaces == SelectSeq(siblings, LAMBDA q : Item(q).kind = "Namespace")
    IN  IF Len(interfaces) = 1 /\ Len(namespaces) = 1 /\ Len(siblings) = 2
        THEN IF Item(apiItem).kind = "Interface" THEN << interfaces \o namespaces >> ELSE <<>>
        ELSE << << apiItem >> >>

\* The page on top of the call stack
Top == stack[Len(stack)]

\* The entity whose case of the body switch the top page is at
TopItem == Top.apiItems[Top.item]

\* The member the loop of the top page is at
TopMember == apiMembersOf(TopItem)[Top.member]

\* The call stack with the page that starts from frame f on top, or the
\* throw of its first half
Begun(stk, apiItems, f) ==
    [failed   |-> f.st.failed,
     warnings |-> f.st.warnings,
     stack    |-> Append(stk, [apiItems       |-> apiItems,
                               output         |-> f.output,
                               contextApiItem |-> f.contextApiItem,
                               item           |-> 1,
                               member         |-> 1,
                               tables         |-> TablesOf(Item(apiItems[1]).kind)])]

Called(stk, w, pages) ==
    IF pages = <<>> THEN [failed |-> FALSE, warnings |-> w, stack |-> stk]
    ELSE Begun(stk, pages[1], _writeApiItemPageWithSiblings([failed |-> FALSE, warnings |-> w], pages[1]))

\* A call of _writeApiItemPage(apiItem) from the call stack stk with w lines
\* logged
Enter(stk, w, apiItem) == Called(stk, w, _writeApiItemPage(apiItem))

\* An exception leaves generateFiles: the run is over
Fails(w) ==
    /\ pc' = "failed"
    /\ stack' = <<>>
    /\ warnings' = w

\* The run goes on in the page that was entered, or ends with its throw
Enters(entered) ==
    IF entered.failed THEN Fails(entered.warnings)
    ELSE /\ pc' = "running"
         /\ stack' = entered.stack
         /\ warnings' = entered.warnings

\* generateFiles: after the output folder is emptied, the page of the model
GenerateFiles ==
    /\ pc = "start"
    /\ visited' = Append(visited, <<>>)
    /\ Enters(Enter(stack, warnings, <<>>))
    /\ UNCHANGED <<apiModel, written, emitterVars>>

\* The row m of the member is pushed, and the page of the member written
Pushes(m, apiMember) ==
    IF m.thrown
    THEN Fails(warnings + m.warnings) /\ UNCHANGED visited
    ELSE IF m.name = ""
    THEN /\ pc' = pc
         /\ stack' = Append(Front(stack), [Top EXCEPT !.member = @ + 1])
         /\ warnings' = warnings + m.warnings
         /\ UNCHANGED visited
    ELSE /\ visited' = Append(visited, apiMember)
         /\ Enters(Enter(Append(Front(stack), [Top EXCEPT !.member = @ + 1, !.tables[m.name] = push(@, m.row)]),
                         warnings + m.warnings, apiMember))

\* One pass of the loop of a tables function: the row of the member, and
\* the page of the member when the row went to a table
WriteMember ==
    /\ pc = "running"
    /\ Top.item <= Len(Top.apiItems)
    /\ Item(TopItem).kind \in TableKinds
    /\ Top.member <= Len(apiMembersOf(TopItem))
    /\ Pushes(RowOf(Item(TopItem).kind, TopMember, _createDescriptionCell(TopMember, Top.contextApiItem)),
              TopMember)
    /\ UNCHANGED <<apiModel, written, emitterVars>>

\* The top page moves on to the next entity of the body loop
NextItem(output) ==
    Append(Front(stack),
           [Top EXCEPT !.output = output,
                       !.item = @ + 1,
                       !.member = 1,
                       !.tables = IF Top.item < Len(Top.apiItems)
                                  THEN TablesOf(Item(Top.apiItems[Top.item + 1]).kind) ELSE <<>>])

\* The end of a tables function: the tables that hold rows are appended
WriteTables ==
    /\ pc = "running"
    /\ Top.item <= Len(Top.apiItems)
    /\ Item(TopItem).kind \in TableKinds
    /\ Top.member > Len(apiMembersOf(TopItem))
    /\ stack' = NextItem(AppendTablesOf(Item(TopItem).kind, Top.output, Top.tables))
    /\ UNCHANGED <<apiModel, pc, written, visited, warnings, emitterVars>>

\* The frame f the case of the body switch returned, or its throw
Continues(f) ==
    IF f.st.failed THEN Fails(f.st.warnings)
    ELSE /\ pc' = pc
         /\ stack' = NextItem(f.output)
         /\ warnings' = f.st.warnings

\* A case of the body switch that has no member loop
WriteBodySection ==
    /\ pc = "running"
    /\ Top.item <= Len(Top.apiItems)
    /\ Item(TopItem).kind \notin TableKinds
    /\ Continues(WriteBody([st             |-> [failed |-> FALSE, warnings |-> warnings],
                            output         |-> Top.output,
                            contextApiItem |-> Top.contextApiItem], TopItem))
    /\ UNCHANGED <<apiModel, written, visited, emitterVars>>

\* The page is written when closeNode('div') returned
Writes(closed) ==
    IF closed.thrown
    THEN Fails(warnings) /\ UNCHANGED written
    ELSE /\ written' = Append(written, writeFile(_getFilenameForApiItem(Top.apiItems[1]),
                                                 Top.apiItems, closed.emitter))
         /\ stack' = Front(stack)
         /\ pc' = IF Len(stack) = 1 THEN "done" ELSE "running"
         /\ warnings' = warnings

\* The end of _writeApiItemPageWithSiblings: closeNode('div'), emit and
\* write the file, return to the caller
WritePage ==
    /\ pc = "running"
    /\ Top.item > Len(Top.apiItems)
    /\ Writes(closeNode(Top.output, "div"))
    /\ UNCHANGED <<apiModel, visited, emitterVars>>

NextDocumenter == GenerateFiles \/ WriteMember \/ WriteTables \/ WriteBodySection \/ WritePage

(***************************************************************************)
(* The entity trees the runs start from: one package whose entry point     *)
(* holds up to MaxTop members; the first of them, when it is a class, an   *)
(* interface, a namespace or an enum, holds up to MaxSub members itself.   *)
(***************************************************************************)

\* The most members of the entry point, and of its first member.
MaxTop == 3
MaxSub == 2
\* The most members of the entry point in the trees that vary the kinds of
\* the members, and in those that vary the doc comments.
MaxTableTop == 2
MaxDocTop == 2

SeqsUpTo(S, n) == UNION {[1..k -> S] : k \in 0..n}

\* Declarations of one name and one kind are one entity, unless they are the
\* overloads of a callable.
Mergeable(ms) ==
    \A i, j \in 1..Len(ms) :
        (i < j /\ ms[i].displayName = ms[j].displayName /\ ms[i].kind = ms[j].kind)
            => ms[i].kind \in CallableKinds

\* The overload index the model provider gives a callable: its one-based
\* position among the members of its name and kind
WithOverloadIndex(ms) ==
    [i \in 1..Len(ms) |->
        IF ms[i].kind \in CallableKinds
        THEN [ms[i] EXCEPT !.overloadIndex =
                 1 + Cardinality({j \in 1..(i - 1) : ms[j].kind = ms[i].kind /\ ms[j].displayName = ms[i].displayName})]
        ELSE ms[i]]

ModelOf(tops) ==
    [ApiItem("Model", "") EXCEPT !.members =
        << [ApiItem("Package", "@scope/pkg") EXCEPT !.members =
               << [ApiItem("EntryPoint", "") EXCEPT !.members = tops] >>] >>]

\* The tree with the members tops below the entry point and the members
\* subs below the first of them
TreeOf(tops, subs) ==
    ModelOf(WithOverloadIndex(IF subs = <<>> THEN tops
                              ELSE [tops EXCEPT ![1].members = WithOverloadIndex(subs)]))

\* The members named by their position, so that no two share a name
Positioned(ms) == [i \in 1..Len(ms) |-> [ms[i] EXCEPT !.displayName = "m" \o ToString(i)]]

\* The members under the names they have, or named by their position
Named(ms, positioned) == IF positioned THEN Positioned(ms) ELSE ms

\* The run starts on a tree with tops from Tops (at most n of them) and,
\* below the first top, members from Subs[its kind] (at most m of them),
\* named by their position or not
StartsOn(Tops, n, Subs, m, positioned) ==
    \E tops \in SeqsUpTo(Tops, n) :
        \E subs \in (IF tops # <<>> /\ tops[1].kind \in DOMAIN Subs THEN SeqsUpTo(Subs[tops[1].kind], m)
                                                                  ELSE { <<>> }) :
            /\ Mergeable(Named(tops, positioned))
            /\ Mergeable(Named(subs, positioned))
            /\ apiModel = TreeOf(Named(tops, positioned), Named(subs, positioned))

InitRun ==
    /\ pc = "start" /\ stack = <<>> /\ written = <<>> /\ visited = <<>> /\ warnings = 0
    /\ emitter = <<>> /\ calls = <<>> /\ thrown = FALSE /\ result = <<>> /\ pending = <<>>

\* Trees that vary the names and the kinds: same-named members of different
\* kinds, overloads, and names that end in _1
FileNames == {"foo", "foo_1"}

FileTops == {ApiItem(k, n) : k \in {"Interface", "Namespace", "Function"}, n \in FileNames}

FileSubs ==
    [k \in {"Interface", "Namespace"} |->
        {ApiItem(IF k = "Interface" THEN "MethodSignature" ELSE "Function", n) : n \in FileNames}]

InitFiles == InitRun /\ StartsOn(FileTops, MaxTop, FileSubs, MaxSub, FALSE)

SpecFiles == InitFiles /\ [][NextDocumenter]_vars

Extending(text) ==
    [ApiItem("Class", "") EXCEPT !.extendsTokens =
        << [kind |-> "Content", text |-> "extends "], [kind |-> "Reference", text |-> text] >>]

\* Trees that vary the kinds of the members of the package and of a namespace
TableTops ==
    {ApiItem(k, "") : k \in {"Class", "Enum", "Function", "Interface", "Namespace", "Variable", "TypeAlias"}}
        \cup {Extending("Error")}

\* The members of a namespace: a class that extends Error and one that does not
TableSubs == {Extending("Error"), Extending("Base")}

InitTables == InitRun /\ StartsOn(TableTops, MaxTableTop, [k \in {"Namespace"} |-> TableSubs], MaxSub, TRUE)

SpecTables == InitTables /\ [][NextDocumenter]_vars

\* The doc comments of the trees that vary them
Plain == << DocParagraph(<< DocPlainText("text") >>) >>
Bold(endName) == << DocParagraph(<< DocHtmlStartTag("b"), DocPlainText("text"), DocHtmlEndTag(endName) >>) >>
StrayEnd(name) == << DocParagraph(<< DocPlainText("text"), DocHtmlEndTag(name) >>) >>
Unclosed == << DocParagraph(<< DocHtmlStartTag("b"), DocPlainText("text") >>) >>

Throwing(n) ==
    [DocComment(Plain) EXCEPT !.customBlocks =
        << DocCustomBlock("@example", Plain) >> \o [i \in 1..n |-> DocCustomBlock("@throws", Plain)]]

FunctionComments ==
    { DocComment(Plain), Throwing(1), Throwing(2),
      DocComment(Bold("b")), DocComment(Bold("i")), DocComment(StrayEnd("b")), DocComment(StrayEnd("body")),
      DocComment(Unclosed),
      [DocComment(Plain) EXCEPT !.remarksBlock = << Bold("i") >>],
      [DocComment(Plain) EXCEPT !.customBlocks = << DocCustomBlock("@throws", Bold("i")) >>] }

Commented(kind, comments) ==
    {ApiItem(kind, "")} \cup {[ApiItem(kind, "") EXCEPT !.tsdocComment = << c >>] : c \in comments}

DocTops == Commented("Function", FunctionComments) \cup Commented("Class", {DocComment(Bold("i"))})

DocSubs ==
    { [ApiItem("Method", "") EXCEPT !.tsdocComment = << c >>] :
        c \in {DocComment(Plain), Throwing(2), DocComment(Bold("i"))} }

InitDocs == InitRun /\ StartsOn(DocTops, MaxDocTop, [k \in {"Class"} |-> DocSubs], MaxSub, TRUE)

SpecDocs == InitDocs /\ [][NextDocumenter]_vars

\* Doc comments that vary the links: to the first and second member of the
\* package, to the first member of the first member, and to a name that no
\* member has
Linking(memberReferences) ==
    DocComment(<< DocParagraph(<< DocLinkTag(memberReferences, ""), DocPlainText("text") >>) >>)

LinkComments ==
    { Linking(<< "m1" >>), Linking(<< "m2" >>), Linking(<< "m1", "m1" >>), Linking(<< "none" >>),
      DocComment(<< DocParagraph(<< DocLinkTag(<< "none" >>, ""), DocPlainText("text"),
                                    DocLinkTag(<< "m1" >>, "see"), DocLinkTag(<< "none" >>, "see") >>) >>),
      [DocComment(Plain) EXCEPT !.remarksBlock = << << DocParagraph(<< DocLinkTag(<< "none" >>, "") >>) >> >>] }

Parameter(name, tsdocParamBlock) ==
    [name |-> name, parameterTypeExcerpt |-> "string", tsdocParamBlock |-> tsdocParamBlock]

\* The members of the package: functions with links in their comments, a
\* function of a beta release, a function whose second parameter alone has
\* a doc block, an enum and an interface
PageTops ==
    Commented("Function", LinkComments)
        \cup { [ApiItem("Function", "") EXCEPT !.releaseTag = "Beta"],
               [ApiItem("Function", "") EXCEPT !.parameters =
                   << Parameter("a", <<>>), Parameter("b", << Plain >>), Parameter("c", <<>>) >>],
               ApiItem("Enum", ""), ApiItem("Interface", "") }

\* The members of an enum, and the members of an interface: a call
\* signature is a member the interface page has no table for
PageSubs ==
    [k \in {"Enum", "Interface"} |->
        IF k = "Enum" THEN Commented("EnumMember", {Linking(<< "m2" >>)})
                      ELSE {ApiItem("CallSignature", ""), ApiItem("MethodSignature", "")}]

InitPages == InitRun /\ StartsOn(PageTops, MaxDocTop, PageSubs, MaxSub, TRUE)

SpecPages == InitPages /\ [][NextDocumenter]_vars

(***************************************************************************)
(* Properties of the emitter (SpecEmitter)                                 *)
(***************************************************************************)

\* The calls that build the tree, without the root() and emit() calls
BuildCalls == SelectSeq(calls, LAMBDA c : c.op \in {"appendChild", "openNode", "closeNode"})

\* The types still open after a call sequence, innermost last, and whether
\* every closeNode so far named the innermost open type
RECURSIVE Opened(_)
Opened(cs) ==
    IF cs = <<>> THEN [ok |-> TRUE, open |-> <<>>]
    ELSE LET before == Opened(Front(cs))
             c == Last(cs)
         IN  IF ~before.ok THEN before
             ELSE IF c.op = "openNode" THEN [before EXCEPT !.open = Append(@, c.name)]
             ELSE IF c.op = "closeNode"
             THEN IF before.open # <<>> /\ Last(before.open) = c.name
                  THEN [before EXCEPT !.open = Front(@)]
                  ELSE [before EXCEPT !.ok = FALSE]
             ELSE before

Balanced(cs) == Opened(cs).ok /\ Opened(cs).open = <<>>

\* The call sequence a tree stands for: a block node is an openNode, its
\* children in order, and a closeNode; a text node is an appendChild
RECURSIVE CallsOf(_)
CallsOf(nodes) ==
    IF nodes = <<>> THEN <<>>
    ELSE LET n == Head(nodes) IN
         (IF "content" \in DOMAIN n
          THEN << Call("openNode", n.type) >> \o CallsOf(n.content) \o << Call("closeNode", n.type) >>
          ELSE << Call("appendChild", n.type) >>)
         \o CallsOf(Tail(nodes))

\* C1: a closeNode(k) made while only the synthetic root is on the stack, or
\* with k other than the type of the node on top of the stack, throws and
\* leaves the emitter (stack, insertion point, tree) as it was.
C1_CloseNodeFailsUnchanged ==
    [][ ( /\ Len(calls') = Len(calls) + 1
          /\ Last(calls').op = "closeNode"
          /\ (Len(emitter._root) = 1 \/ Last(calls').name # TopType(emitter)) )
        => (thrown' /\ emitter' = emitter) ]_vars

\* A closeNode that named the root's own type with nothing but the root open
C1_Witness ==
    /\ calls # <<>> /\ Last(calls).op = "closeNode" /\ thrown
    /\ Len(emitter._root) = 1 /\ Last(calls).name = TopType(emitter)
    /\ Len(calls) > 1

\* C2: after a balanced sequence of openNode / appendChild / closeNode calls
\* the stack is the synthetic root alone and the tree under root() has the
\* nesting and the order of the calls.
C2_BalancedCallsRoundTrip ==
    Balanced(BuildCalls) =>
        /\ emitter._root = <<1>>
        /\ CallsOf(root(emitter).content) = BuildCalls

\* A balanced sequence two levels deep with a child in the inner node and
\* one after it
C2_Witness ==
    /\ Balanced(BuildCalls)
    /\ Len(BuildCalls) = 5
    /\ BuildCalls[1].op = "openNode" /\ BuildCalls[2].op = "openNode"
    /\ BuildCalls[3].op = "closeNode" /\ BuildCalls[4].op = "appendChild"

\* C3: root() or emit() called while a node opened by openNode is still on
\* the stack throws.
C3_FinalizeRejectsOpenNodes ==
    (calls # <<>> /\ Last(calls).op \in {"root", "emit"} /\ Len(emitter._root) > 1) => thrown

(***************************************************************************)
(* Properties of the emitter with callbacks (SpecCallback)                 *)
(***************************************************************************)

Range(seq) == {seq[i] : i \in 1..Len(seq)}

\* C15: after any calls, failed ones and calls with callbacks included, the
\* stack is not empty, its bottom is the root made by the constructor, and
\* the insertion point is the node on top of the stack.
C15_RootAtBottomCurrentOnTop ==
    /\ Len(emitter._root) >= 1
    /\ emitter._root[1] = 1
    /\ emitter.heap[1].type = "body"
    /\ emitter._current = Last(emitter._root)

\* A failed closeNode with two nodes open above the root
C15_Witness ==
    /\ calls # <<>> /\ Last(calls).op = "closeNode" /\ thrown
    /\ Len(emitter._root) = 3

\* C17: when openNode(child, fn) returns, the child is off the stack, and
\* the stack and the insertion point are those from before the call.
C17_CallbackRestoresStack ==
    (calls # <<>> /\ Last(calls).op = "return" /\ ~thrown) =>
        /\ Last(calls).child \notin Range(emitter._root)
        /\ emitter._root = Last(calls)._root
        /\ emitter._current = Last(calls)._current

(***************************************************************************)
(* Properties of the filenames and of the grouping into pages (SpecFiles)  *)
(***************************************************************************)

\* The writes of the run that rendered the entity
WritesOf(path) == {i \in 1..Len(written) : path \in Range(written[i].apiItems)}

\* The suffix _(i-1) for overload i > 1 of a callable, none otherwise
SuffixLessOne(item) ==
    IF item.kind \in CallableKinds /\ item.overloadIndex > 1
    THEN "_" \o ToString(item.overloadIndex - 1)
    ELSE ""

\* The filename without .html that the naming rule gives an entity, from the
\* rule for its parent: the package contributes its unscoped name, the model
\* and the entry point nothing, and every other entity a dot, its name and
\* its suffix
RECURSIVE RuleBase(_)
RuleBase(path) ==
    LET item == Item(path) IN
    IF item.kind = "Model" THEN ""
    ELSE IF item.kind = "Package" THEN "pkg"
    ELSE IF item.kind = "EntryPoint" THEN RuleBase(Front(path))
    ELSE RuleBase(Front(path)) \o "." \o item.displayName \o SuffixLessOne(item)

\* C4: no two pages of a run, written for distinct entities, get the same
\* filename.
C4_FilenamesInjective ==
    pc = "done" =>
        \A i, j \in 1..Len(written) :
            written[i].apiItems[1] # written[j].apiItems[1] => written[i].filename # written[j].filename

\* C5: every page is written to the name the rule gives with the suffix
\* _(i-1) on exactly the callable segments of overload index i > 1.
C5_OverloadSuffixRule ==
    \A i \in 1..Len(written) :
        Item(written[i].apiItems[1]).kind # "Model" =>
            written[i].filename = RuleBase(written[i].apiItems[1]) \o ".html"

\* The pages of a first, a second and a third overload, all written
C5_Witness ==
    /\ pc = "done"
    /\ \A index \in 1..3 : \E i \in 1..Len(written) : Item(written[i].apiItems[1]).overloadIndex = index

\* The pages of the first and second overloads of the top-level functions
OverloadPages(index) ==
    {i \in 1..Len(written) :
        /\ Len(written[i].apiItems[1]) = 3
        /\ Item(written[i].apiItems[1]).kind = "Function"
        /\ Item(written[i].apiItems[1]).overloadIndex = index}

\* C6 as stated: the first overload gets no suffix and the second gets _2.
C6_SecondOverloadSuffix2 ==
    /\ \A i \in OverloadPages(1) :
           written[i].filename = "pkg." \o Item(written[i].apiItems[1]).displayName \o ".html"
    /\ \A i \in OverloadPages(2) :
           written[i].filename = "pkg." \o Item(written[i].apiItems[1]).displayName \o "_2.html"

\* C6 amended: the first overload gets no suffix and the second gets _1.
C6_SecondOverloadSuffix1 ==
    /\ \A i \in OverloadPages(1) :
           written[i].filename = "pkg." \o Item(written[i].apiItems[1]).displayName \o ".html"
    /\ \A i \in OverloadPages(2) :
           written[i].filename = "pkg." \o Item(written[i].apiItems[1]).displayName \o "_1.html"

\* The pages of a first and of a second overload, both written
C6_Witness ==
    pc = "done" /\ OverloadPages(1) # {} /\ OverloadPages(2) # {}

\* The members of the entity's parent that carry its name
SameNamed(path) ==
    {Append(Front(path), i) : i \in {j \in 1..Len(Item(Front(path)).members) :
                                        Item(Append(Front(path), j)).displayName = Item(path).displayName}}

\* The entity is one of exactly two same-named members, an interface and a
\* namespace
InMergedPair(path) ==
    /\ path # <<>>
    /\ Cardinality(SameNamed(path)) = 2
    /\ \E p, q \in SameNamed(path) : Item(p).kind = "Interface" /\ Item(q).kind = "Namespace"

\* C9: in a run that completes, an interface and a namespace that are the
\* only two members of their name are written as one page, the interface
\* first and under the interface's filename, and the namespace heads no page;
\* every other visited entity is written as a page of its own.
C9_MergedPairOnePage ==
    pc = "done" =>
        \A v \in Range(visited) :
            /\ Cardinality(WritesOf(v)) = 1
            /\ \A i \in WritesOf(v) :
                  IF InMergedPair(v)
                  THEN /\ Len(written[i].apiItems) = 2
                       /\ Range(written[i].apiItems) = SameNamed(v)
                       /\ Item(written[i].apiItems[1]).kind = "Interface"
                       /\ written[i].filename = _getFilenameForApiItem(written[i].apiItems[1])
                  ELSE written[i].apiItems = << v >>

\* A run that wrote a merged page, and one for a same-named interface and
\* namespace that have a third sibling of their name
C9_Witness ==
    /\ pc = "done"
    /\ \E i \in 1..Len(written) : Len(written[i].apiItems) = 2
    /\ Len(visited) > 4

(***************************************************************************)
(* Properties of the pages (SpecTables, SpecDocs)                          *)
(***************************************************************************)

\* The nodes appended to the main div of a written page
Main(w) == w.page.content[2].content

\* The positions of the section headings that read heading
Sections(nodes, heading) ==
    {i \in 1..Len(nodes) : nodes[i].type = "h3" /\ "text" \in DOMAIN nodes[i] /\ nodes[i].text = heading}

\* The node after the heading is a table whose first column is headed column
\* and which has rows rows below its thead
TableAt(nodes, i, column, rows) ==
    /\ i < Len(nodes)
    /\ nodes[i + 1].type = "table"
    /\ nodes[i + 1].content[1].type = "thead"
    /\ nodes[i + 1].content[1].content[1].content[1].text = column
    /\ Len(nodes[i + 1].content) = 1 + rows
    /\ \A r \in 2..(1 + rows) : nodes[i + 1].content[r].type = "tr"

\* The member categories of a package or namespace page: the section heading
\* and the heading of the first column
Categories ==
    { << "Classes", "Class" >>, << "Enumerations", "Enumeration" >>, << "Functions", "Function" >>,
      << "Interfaces", "Interface" >>, << "Namespaces", "Namespace" >>, << "Variables", "Variable" >>,
      << "Types", "Type Alias" >>, << "Exceptions", "Exception" >> }

CategoryOf(item) ==
    CASE item.kind = "Class" ->
             IF \E i \in 1..Len(item.extendsTokens) : item.extendsTokens[i] = [kind |-> "Reference", text |-> "Error"]
             THEN "Exceptions" ELSE "Classes"
      [] item.kind = "Enum" -> "Enumerations"
      [] item.kind = "Function" -> "Functions"
      [] item.kind = "Interface" -> "Interfaces"
      [] item.kind = "Namespace" -> "Namespaces"
      [] item.kind = "Variable" -> "Variables"
      [] item.kind = "TypeAlias" -> "Types"
      [] OTHER -> ""

\* The number of members of a package or namespace that fall in a category
CategoryCount(path, heading) ==
    LET holder == IF Item(path).kind = "Package" THEN Item(path).members[1] ELSE Item(path) IN
    Cardinality({i \in 1..Len(holder.members) : CategoryOf(holder.members[i]) = heading})

\* The packages and namespaces that the page written last renders.  Every
\* page of a run is the page written last in the state its write leads to.
ContainersWritten ==
    IF written = <<>> THEN {}
    ELSE {c \in Range(Last(written).apiItems) : Item(c).kind \in {"Package", "Namespace"}}

CallablePages ==
    {<< i, c >> \in (1..Len(written)) \X Range(visited) :
        c \in Range(written[i].apiItems) /\ Item(c).kind \in CallableKinds}

\* The number of throws blocks of an entity; none without a doc comment
ThrowsBlocks(item) ==
    IF item.tsdocComment = <<>> THEN 0
    ELSE Cardinality({i \in 1..Len(item.tsdocComment[1].customBlocks) :
                         item.tsdocComment[1].customBlocks[i].blockTag = "@throws"})

\* The page has one Throws heading, followed by a table of that many rows
ThrowsSection(w, rows) ==
    /\ Cardinality(Sections(Main(w), "Throws")) = 1
    /\ \A i \in Sections(Main(w), "Throws") : TableAt(Main(w), i, "Error", rows)

\* The callables that the page written last renders
CallablesWritten ==
    IF written = <<>> THEN {}
    ELSE {c \in Range(Last(written).apiItems) : Item(c).kind \in CallableKinds}

\* C8 as stated: every callable page has the Throws heading and table, one
\* row a throws block, with or without a doc comment.
C8_ThrowsAlways ==
    \A c \in CallablesWritten : ThrowsSection(Last(written), ThrowsBlocks(Item(c)))

\* C8 amended: a callable page has the Throws heading and table, one row a
\* throws block, exactly when the callable has a doc comment.
C8_ThrowsWhenCommented ==
    \A c \in CallablesWritten :
        IF Item(c).tsdocComment # <<>>
        THEN ThrowsSection(Last(written), ThrowsBlocks(Item(c)))
        ELSE Sections(Main(Last(written)), "Throws") = {}

\* Pages of callables with no throws block, with two, and with no comment
C8_Witness ==
    /\ \E pg \in CallablePages : Item(pg[2]).tsdocComment # <<>> /\ ThrowsBlocks(Item(pg[2])) = 0
    /\ \E pg \in CallablePages : ThrowsBlocks(Item(pg[2])) = 2
    /\ \E pg \in CallablePages : Item(pg[2]).tsdocComment = <<>>

\* Some end tag of the node list, or of a node list nested in it, closes
\* while no start tag of its list is open or names another than the
\* innermost open one
RECURSIVE Mismatched(_)
RECURSIVE MismatchedFrom(_, _, _)
MismatchedFrom(nodes, i, open) ==
    IF i > Len(nodes) THEN FALSE
    ELSE CASE nodes[i].kind \in {"Paragraph", "Block"} ->
                 Mismatched(nodes[i].nodes) \/ MismatchedFrom(nodes, i + 1, open)
           [] nodes[i].kind = "HtmlStartTag" -> MismatchedFrom(nodes, i + 1, Append(open, nodes[i].name))
           [] nodes[i].kind = "HtmlEndTag" ->
                 IF open = <<>> \/ Last(open) # nodes[i].name THEN TRUE
                 ELSE MismatchedFrom(nodes, i + 1, Front(open))
           [] OTHER -> MismatchedFrom(nodes, i + 1, open)

Mismatched(nodes) == MismatchedFrom(nodes, 1, <<>>)

\* The doc comment of the entity has a mismatched end tag in some section
CommentMismatched(item) ==
    /\ item.tsdocComment # <<>>
    /\ LET c == item.tsdocComment[1] IN
       \/ Mismatched(c.summarySection)
       \/ \E i \in 1..Len(c.remarksBlock) : Mismatched(c.remarksBlock[i])
       \/ \E i \in 1..Len(c.returnsBlock) : Mismatched(c.returnsBlock[i])
       \/ \E i \in 1..Len(c.customBlocks) : Mismatched(c.customBlocks[i].content)

RECURSIVE PathsBelow(_)
PathsBelow(path) ==
    {path} \cup UNION {PathsBelow(Append(path, i)) : i \in 1..Len(Item(path).members)}

\* C10: when the doc comment of an entity has a mismatched end tag, the run
\* never returns (it ends with the throw, as a run ends returned or thrown)
\* and at no time is a page that renders the entity written.
C10_MismatchedTagNoPage ==
    \A p \in PathsBelow(<<>>) :
        CommentMismatched(Item(p)) => (pc # "done" /\ WritesOf(p) = {})

\* A run that threw on a mismatched end tag after it had written a page
C10_Witness ==
    /\ pc = "failed"
    /\ written # <<>>
    /\ \E p \in PathsBelow(<<>>) : CommentMismatched(Item(p)) /\ p \in Range(visited)

(***************************************************************************)
(* Properties of the links of the doc comments (SpecPages)                  *)
(***************************************************************************)

RECURSIVE Total(_)
Total(numbers) == IF numbers = <<>> THEN 0 ELSE Head(numbers) + Total(Tail(numbers))

\* The node is a link to a declaration that the lookup does not resolve
IsUnresolvedLink(node, contextApiItem) ==
    /\ node.kind = "LinkTag"
    /\ node.urlDestination = ""
    /\ node.codeDestination # <<>>
    /\ resolveDeclarationReference(node.codeDestination[1], contextApiItem).resolvedApiItem = <<>>

\* The number of unresolved links of a node list, nested lists included
RECURSIVE UnresolvedIn(_, _)
UnresolvedIn(nodes, contextApiItem) ==
    IF nodes = <<>> THEN 0
    ELSE (CASE Head(nodes).kind \in {"Paragraph", "Block"} -> UnresolvedIn(Head(nodes).nodes, contextApiItem)
            [] IsUnresolvedLink(Head(nodes), contextApiItem) -> 1
            [] OTHER -> 0)
         + UnresolvedIn(Tail(nodes), contextApiItem)

\* The node list without its unresolved links
RECURSIVE WithoutUnresolved(_, _)
WithoutUnresolved(nodes, contextApiItem) ==
    IF nodes = <<>> THEN <<>>
    ELSE (CASE Head(nodes).kind \in {"Paragraph", "Block"} ->
                  << [Head(nodes) EXCEPT !.nodes = WithoutUnresolved(@, contextApiItem)] >>
            [] IsUnresolvedLink(Head(nodes), contextApiItem) -> <<>>
            [] OTHER -> << Head(nodes) >>)
         \o WithoutUnresolved(Tail(nodes), contextApiItem)

\* The summary of an entity as a list of node lists: none without a comment
SummaryOf(path) ==
    IF IsApiDocumentedItem(Item(path)) /\ Item(path).tsdocComment # <<>>
    THEN << Item(path).tsdocComment[1].summarySection >> ELSE <<>>

\* The node lists that the page of an entity translates for the entity
\* itself: summary and remarks, and for a callable the blocks of its
\* parameters, the returns block and the throws blocks
OwnSections(path) ==
    LET item == Item(path)
        c == item.tsdocComment[1]
    IN  IF ~IsApiDocumentedItem(item) \/ item.tsdocComment = <<>>
        THEN IF item.kind \in CallableKinds
             THEN [k \in 1..Len(SelectSeq(item.parameters, LAMBDA q : q.tsdocParamBlock # <<>>)) |->
                      SelectSeq(item.parameters, LAMBDA q : q.tsdocParamBlock # <<>>)[k].tsdocParamBlock[1]]
             ELSE <<>>
        ELSE << c.summarySection >> \o c.remarksBlock
             \o (IF item.kind \in CallableKinds
                 THEN [k \in 1..Len(SelectSeq(item.parameters, LAMBDA q : q.tsdocParamBlock # <<>>)) |->
                          SelectSeq(item.parameters, LAMBDA q : q.tsdocParamBlock # <<>>)[k].tsdocParamBlock[1]]
                      \o (IF ApiReturnTypeMixin_isBaseClassOf(item) THEN c.returnsBlock ELSE <<>>)
                      \o [k \in 1..Len(SelectSeq(c.customBlocks, LAMBDA x : x.blockTag = "@throws")) |->
                              SelectSeq(c.customBlocks, LAMBDA x : x.blockTag = "@throws")[k].content]
                 ELSE <<>>)

\* The members whose summary the page of an entity translates for a table
\* row: all members of a model, package, namespace or enum, and the members
\* of a class or interface that go to a table
RowMembers(path) ==
    LET kind == Item(path).kind IN
    CASE kind \in {"Model", "Package", "Namespace"} -> apiMembersOf(path)
      [] kind = "Enum" -> apiMembersOf(path)
      [] kind = "Class" -> SelectSeq(apiMembersOf(path), LAMBDA q : ClassTableOf(Item(q)) # "")
      [] kind = "Interface" -> SelectSeq(apiMembersOf(path), LAMBDA q : InterfaceTableOf(Item(q)) # "")
      [] OTHER -> <<>>

\* The node lists a page translates for one of its entities
SectionsOf(path) ==
    OwnSections(path) \o [k \in 1..Len(SelectSeq(RowMembers(path), LAMBDA q : SummaryOf(q) # <<>>)) |->
                              SummaryOf(SelectSeq(RowMembers(path), LAMBDA q : SummaryOf(q) # <<>>)[k])[1]]

\* The unresolved links among the node lists of the written pages, each
\* looked up from the first entity of its page
UnresolvedWritten ==
    Total([i \in 1..Len(written) |->
        Total([j \in 1..Len(written[i].apiItems) |->
            Total([k \in 1..Len(SectionsOf(written[i].apiItems[j])) |->
                UnresolvedIn(SectionsOf(written[i].apiItems[j])[k], written[i].apiItems[1])])])])

\* C11: no run throws for an unresolved link; the translation of a node
\* list logs one line for each of its unresolved links and returns what it
\* returns for the list without them; and a run that completed has logged
\* one line for each unresolved link of each node list its pages translated.
C11_UnresolvedLinkOmitted ==
    /\ pc # "failed"
    /\ \A i \in 1..Len(written) : \A p \in Range(written[i].apiItems) :
           \A k \in 1..Len(SectionsOf(p)) :
               LET nodes == SectionsOf(p)[k]
                   contextApiItem == written[i].apiItems[1]
               IN  /\ ~_createDocNodes(nodes, contextApiItem).thrown
                   /\ _createDocNodes(nodes, contextApiItem).warnings = UnresolvedIn(nodes, contextApiItem)
                   /\ _createDocNodes(nodes, contextApiItem).content =
                          _createDocNodes(WithoutUnresolved(nodes, contextApiItem), contextApiItem).content
    /\ pc = "done" => warnings = UnresolvedWritten

\* A run that completed and wrote the page of an entity whose summary has
\* a resolved link between two unresolved ones
C11_Witness ==
    /\ pc = "done"
    /\ \E i \in 1..Len(written) :
           /\ SummaryOf(written[i].apiItems[1]) # <<>>
           /\ UnresolvedIn(SummaryOf(written[i].apiItems[1])[1], written[i].apiItems[1]) = 2
           /\ Len(WithoutUnresolved(SummaryOf(written[i].apiItems[1])[1], written[i].apiItems[1])[1].nodes) = 2

(***************************************************************************)
(* Properties of the dispatch on kinds (SpecPages)                         *)
(***************************************************************************)

\* The kinds of members that the member loop of a page has a case for
HandledMemberKinds(kind) ==
    CASE kind = "Class" -> {"Constructor", "Method", "Property"}
      [] kind = "Interface" -> {"ConstructSignature", "MethodSignature", "PropertySignature"}
      [] kind \in {"Package", "Namespace"} ->
             {"Class", "Enum", "Interface", "Namespace", "Function", "TypeAlias", "Variable"}
      [] kind = "Model" -> {"Package"}

\* C12: a run does not complete unless every entity it wrote a page for is
\* of a kind the page switch knows and every member of a class, interface,
\* namespace, package or model it wrote is of a kind the member loop of that
\* page has a case for.
C12_UnknownKindAborts ==
    pc = "done" =>
        \A i \in 1..Len(written) : \A p \in Range(written[i].apiItems) :
            /\ Item(p).kind \in PageKinds
            /\ Item(p).kind \in TableKinds =>
                   \A m \in Range(apiMembersOf(p)) : Item(m).kind \in HandledMemberKinds(Item(p).kind)

(***************************************************************************)
(* Properties of the stability banner (SpecPages)                          *)
(***************************************************************************)

ClassOf(node) ==
    IF "attributes" \in DOMAIN node /\ "class" \in DOMAIN node.attributes THEN node.attributes.class ELSE ""

\* The nodes that the breadcrumb, the heading, the summaries, the
\* signatures, the remarks and the tables put on a page, by type and class
SectionParts ==
    { << "a", "breadcrumb" >>, << "span", "breadcrumb" >>, << "h1", "page-header" >>,
      << "div", "summary" >>, << "div", "signature-heading" >>, << "pre", "signature" >>,
      << "h3", "section-heading" >>, << "div", "" >>, << "table", "" >> }

\* The nodes of a written page that none of those sections accounts for
StabilityWarnings(w) ==
    {i \in 1..Len(Main(w)) : << Main(w)[i].type, ClassOf(Main(w)[i]) >> \notin SectionParts}

\* C13: a written page holds a stability warning block if and only if one
\* of its entities is of a beta release.
C13_BetaWarningIffBeta ==
    \A i \in 1..Len(written) :
        (\E p \in Range(written[i].apiItems) : Item(p).releaseTag = "Beta")
            <=> (StabilityWarnings(written[i]) # {})

(***************************************************************************)
(* Properties of the page units (SpecFiles)                                *)
(***************************************************************************)

\* The page unit of an entity: the entity alone, or the two of a merged pair
PageUnit(path) == IF InMergedPair(path) THEN SameNamed(path) ELSE {path}

\* C14: in a run that completed every visited entity is rendered by exactly
\* one write, every write renders exactly the page unit of the entities it
\* renders, all of them visited, and there are as many writes as the
\* visited entities have page units, so no unit is written twice.
C14_OneWritePerPageUnit ==
    pc = "done" =>
        /\ \A v \in Range(visited) : Cardinality(WritesOf(v)) = 1
        /\ \A i \in 1..Len(written) : \A p \in Range(written[i].apiItems) :
               /\ p \in Range(visited)
               /\ Range(written[i].apiItems) = PageUnit(p)
               /\ Len(written[i].apiItems) = Cardinality(PageUnit(p))
        /\ \A i, j \in 1..Len(written) : written[i].apiItems = written[j].apiItems => i = j
        /\ Len(written) = Cardinality({PageUnit(v) : v \in Range(visited)})
        /\ Cardinality(Range(visited)) = Len(visited)

\* A run that completed with a merged page, a page of one entity below it
\* and one visited entity more than it wrote pages
C14_Witness ==
    /\ pc = "done"
    /\ Len(visited) = Len(written) + 1
    /\ \E i, j \in 1..Len(written) :
           /\ Len(written[i].apiItems) = 2
           /\ Len(written[j].apiItems) = 1
           /\ Front(written[j].apiItems[1]) \in Range(written[i].apiItems)

(***************************************************************************)
(* Properties of the parameters table (SpecPages)                          *)
(***************************************************************************)

\* The description cell that the doc block of the parameter alone gives:
\* the first node of its translation, or the empty text without a block
OwnDescription(apiParameter, contextApiItem) ==
    IF apiParameter.tsdocParamBlock # <<>>
    THEN tag("td", << First(_createDocNodes(apiParameter.tsdocParamBlock[1], contextApiItem).content) >>)
    ELSE tagText("td", "")

\* C16: in the parameters table of a written callable page the third cell
\* of the row of each parameter is the description of that parameter's own
\* doc block, and empty for a parameter without one.
C16_ParameterDescriptionOwnBlock ==
    \A i \in 1..Len(written) : \A c \in Range(written[i].apiItems) :
        Item(c).kind \in CallableKinds =>
            \A s \in Sections(Main(written[i]), "Parameters") :
                \A k \in 1..Len(Item(c).parameters) :
                    Main(written[i])[s + 1].content[k + 1].content[3]
                        = OwnDescription(Item(c).parameters[k], written[i].apiItems[1])

(***************************************************************************)
(* Properties of the anchors (SpecPages)                                   *)
(***************************************************************************)

\* The anchors of a node list, nested nodes included
RECURSIVE AnchorsOf(_)
AnchorsOf(nodes) ==
    UNION { IF nodes[i].type = "a" THEN { nodes[i] }
            ELSE IF "content" \in DOMAIN nodes[i] THEN AnchorsOf(nodes[i].content)
            ELSE {} : i \in 1..Len(nodes) }

\* The anchors of a written page whose target was computed from an entity:
\* all but the logo of the page header
EntityAnchors(w) == {n \in AnchorsOf(<< w.page >>) : ClassOf(n) # "header-logo"}

\* C18: when a run has completed, every anchor of every written page whose
\* target was computed from an entity points to a file the run wrote.
C18_AnchorsPointToWrittenFiles ==
    pc = "done" =>
        \A i \in 1..Len(written) : \A n \in EntityAnchors(written[i]) :
            \E j \in 1..Len(written) : n.attributes.href = "./" \o written[j].filename

====
